---- MODULE Spec2Model ----
(***************************************************************************)
(* A model of DiscordPlay's asynchronous layer:                            *)
(*   - Connections (src/src/Connections.cpp): the table of in-flight HTTP  *)
(*     client transactions, QueueResourceRequest with its completion       *)
(*     delegate and its cancel function, and QueueWebSocketRequest;        *)
(*   - ConnectWebSocket (src/src/ConnectWebSocket.cpp): one upgrade        *)
(*     attempt on a worker thread, its shared context and its abort;       *)
(*   - WebSocket (src/src/WebSocket.cpp): the adapter that stores text     *)
(*     messages until a text callback is registered.                       *)
(*                                                                         *)
(* Threads are modelled by program counters.  A critical section (the code *)
(* between taking a lock and releasing it) is one action whenever nothing  *)
(* inside it waits; Connections::Impl::mutex is a variable because         *)
(* QueueWebSocketRequest holds it across several steps.                    *)
(***************************************************************************)
EXTENDS Integers, Sequences, FiniteSets, TLC

(***************************************************************************)
(* Bounds of the model.                                                    *)
(***************************************************************************)
MaxTransactions == 1
MaxIssued == 2
MaxCancelThreads == 2
MaxMessages == 3
MaxRegisterCalls == 2
MaxNotifications == 2
MaxSendCalls == 2

(***************************************************************************)
(* Program constants.                                                      *)
(***************************************************************************)
ClientClosedRequest == 499
TlsPort == 443
SwitchingProtocols == 101

Ids == 1..(IF MaxIssued > MaxTransactions THEN MaxIssued ELSE MaxTransactions)
CancelThreads == 1..MaxCancelThreads

VARIABLES
    \* ---- Connections ----
    implOwned,                  \* the Connections object still holds impl_
    mutex,                      \* Impl::mutex: "free" or the thread holding it
    httpClientTransactions,     \* Impl::httpClientTransactions (its key set)
    nextHttpClientTransactionId,
    httpRequested,              \* the last Http::Request handed to the client
    transportTx,                \* per id: the client's transaction (state, response)
    responsePromise,            \* per id: the shared promise< Response >
    promiseFault,               \* per id: set_value on a satisfied promise (future_error)
    removedBy,                  \* per id: which path erased the table entry
    cpc,                        \* per id: the completion delegate's position
    kpc,                        \* per cancel thread: the cancel lambda's position
    kid,                        \* per cancel thread: the id its running lambda captured
    kLate,                      \* per cancel thread: the entry was gone when it was called
    lateCancelReturned,         \* some cancel call that found the entry gone has returned
    \* ---- QueueWebSocketRequest ----
    wpc,                        \* position of the thread inside QueueWebSocketRequest
    webSocketPromise,           \* "unset", "null" or "wrapper"
    cancelWebSocketConnection,  \* the local flag captured by reference
    staleCancelWrite,           \* the cancel lambda wrote the flag after the call returned
    pollTick,                   \* flips each time the poll loop goes round
    \* ---- ConnectWebSocket ----
    attemptUri,                 \* the uri given to ConnectWebSocket
    workerPc,                   \* position of ConnectWebSocketSynchronous
    abortAttempt,               \* MakeConnectionSharedContext::abortAttempt
    transactionCompleted,       \* MakeConnectionSharedContext::transactionCompleted
    cvNotified,                 \* connectionWaitDone has a pending wake-up for the waiter
    waitResult,                 \* what Wait() returned
    wsEngaged,                  \* the local captured by reference by the upgrade callback
    staleEngagedWrite,          \* the upgrade callback wrote wsEngaged after the return
    wsRequest,                  \* the Http::Request target handed to the client
    wsTransaction,              \* the client's transaction of the attempt
    tpc,                        \* position of the client's thread for the attempt
    connectionFuture,           \* "none", "pending", "null" or "ws"
    diag,                       \* diagnostics published by the attempt
    abortFirst,                 \* abort took effect before the completion delegate fired
    \* ---- WebSocket adapter ----
    onText,                     \* Impl::onText: 0 is nullptr
    storedData,                 \* Impl::storedData
    opc,                        \* position of the connection's thread in the text delegate
    odata,                      \* the payload the text delegate holds
    onTextSample,               \* OnText's sample of the callback
    arrived,                    \* number of text messages that arrived so far
    rpc,                        \* position of the thread in RegisterTextCallback
    rSample,                    \* RegisterTextCallback's sample of the callback
    rStored,                    \* RegisterTextCallback's local storedData
    rEntry,                     \* Impl::storedData when the current call began
    rMark,                      \* Len(delivered) when the current call began
    rQuiet,                     \* no text delegate ran during the current call
    wsMutex,                    \* WebSocket::Impl::mutex: its owner and hold count
    registerCalls,              \* number of RegisterTextCallback calls so far
    delivered,                  \* every callback invocation, in order
    binaryGiven,                \* the function last given to RegisterBinaryCallback
    closeGiven,                 \* the function last given to RegisterCloseCallback
    forwarded,                  \* every call of a binary or close callback, in order
    notified,                   \* number of ping, pong, binary and close notifications so far
    lastKind,                   \* the kind of the last of them
    closeReceived,              \* a close notification has arrived
    sendCalls,                  \* number of Text, Binary and Close calls so far
    lastSend,                   \* the last of them, and whether it came after a close
    sent                        \* what the adapter handed to Impl::adaptee to send

connVars == <<implOwned, mutex, httpClientTransactions, nextHttpClientTransactionId,
              httpRequested, transportTx, responsePromise, promiseFault, removedBy,
              cpc, kpc, kid, kLate, lateCancelReturned>>
wsReqVars == <<wpc, webSocketPromise, cancelWebSocketConnection, staleCancelWrite,
               pollTick>>
attemptVars == <<attemptUri, workerPc, abortAttempt, transactionCompleted, cvNotified,
                 waitResult, wsEngaged, staleEngagedWrite, wsRequest, wsTransaction,
                 tpc, connectionFuture, diag, abortFirst>>
frameVars == <<binaryGiven, closeGiven, forwarded, notified, lastKind, closeReceived,
               sendCalls, lastSend, sent>>
adapterVars == <<onText, storedData, opc, odata, onTextSample, arrived, rpc, rSample,
                 rStored, rEntry, rMark, rQuiet, registerCalls, delivered, wsMutex,
                 frameVars>>
vars == <<connVars, wsReqVars, attemptVars, adapterVars>>


(***************************************************************************)
(* Uri::Uri.  A uri string is the record of what parsing finds in it.      *)
(***************************************************************************)
EmptyUri == [scheme |-> "", hasPort |-> FALSE, port |-> 0]

UriStrings ==
    { [valid |-> TRUE, scheme |-> "https", hasPort |-> FALSE, port |-> 0],
      [valid |-> TRUE, scheme |-> "https", hasPort |-> TRUE, port |-> 8443],
      [valid |-> TRUE, scheme |-> "http", hasPort |-> FALSE, port |-> 0],
      [valid |-> TRUE, scheme |-> "wss", hasPort |-> FALSE, port |-> 0],
      [valid |-> TRUE, scheme |-> "wss", hasPort |-> TRUE, port |-> 8443],
      [valid |-> TRUE, scheme |-> "ws", hasPort |-> FALSE, port |-> 0],
      [valid |-> FALSE, scheme |-> "", hasPort |-> FALSE, port |-> 0] }

ResourceUris == { u \in UriStrings : u.scheme \in {"https", "http"} }
WebSocketUris == UriStrings

\* Uri::ParseFromString: whether the string parsed, and the uri it left.
ParseFromString_Lenient(u) ==
    [ok |-> TRUE, uri |-> [scheme |-> u.scheme, hasPort |-> u.hasPort, port |-> u.port]]

ParseFromString(u) ==
    [ok |-> u.valid,
     uri |-> IF u.valid
             THEN [scheme |-> u.scheme, hasPort |-> u.hasPort, port |-> u.port]
             ELSE EmptyUri]

SetPort(uri, p) == [uri EXCEPT !.hasPort = TRUE, !.port = p]

\* The target QueueResourceRequest hands to the client.
ResourceTarget(u) ==
    LET target == ParseFromString(u).uri
    IN  IF target.scheme = "https" \/ target.scheme = "wss"
        THEN SetPort(target, TlsPort)
        ELSE target

\* The target ConnectWebSocketSynchronous hands to the client.
WebSocketTarget(uri) ==
    IF ~uri.hasPort /\ uri.scheme = "wss" THEN SetPort(uri, TlsPort) ELSE uri

(***************************************************************************)
(* Responses.                                                              *)
(***************************************************************************)
EmptyHttpResponse == [statusCode |-> 0, headers |-> <<>>, body |-> ""]
InProgressTx == [state |-> "InProgress", response |-> EmptyHttpResponse]

\* What the client may report for a resource request: every terminal state,
\* with different responses.
TransportOutcomes ==
    { [state |-> "Completed",
       response |-> [statusCode |-> 200,
                     headers |-> << [name |-> "Content-Type", value |-> "text/plain"],
                                    [name |-> "Age", value |-> "7"] >>,
                     body |-> "hello"]],
      [state |-> "UnableToConnect", response |-> EmptyHttpResponse],
      [state |-> "Broken",
       response |-> [statusCode |-> 200,
                     headers |-> << [name |-> "Age", value |-> "7"] >>,
                     body |-> ""]],
      [state |-> "Timeout",
       response |-> [statusCode |-> 404, headers |-> <<>>, body |-> "late"]] }

EmptyResponse == [status |-> 0, headers |-> <<>>, body |-> ""]
UnsetPromise == [satisfied |-> FALSE, value |-> EmptyResponse]

\* The loop over response.headers.GetAll() that fills Response::headers
\* (lines 146-151).
RECURSIVE CopyHeaders_Prepended(_, _)
CopyHeaders_Prepended(all, out) ==
    IF all = <<>>
    THEN out
    ELSE CopyHeaders_Prepended(Tail(all),
                               <<[key |-> Head(all).name, value |-> Head(all).value]>> \o out)

RECURSIVE CopyHeaders(_, _)
CopyHeaders(all, out) ==
    IF all = <<>>
    THEN out
    ELSE CopyHeaders(Tail(all),
                     Append(out, [key |-> Head(all).name, value |-> Head(all).value]))

\* The Response the completion delegate builds from the client's transaction.
TranslateResponse(tx) ==
    [status |-> tx.response.statusCode,
     headers |-> CopyHeaders(tx.response.headers, <<>>),
     body |-> tx.response.body]

\* The Response the cancel lambda builds: Response{499}.
CancelledResponse_Default == EmptyResponse

CancelledResponse == [status |-> ClientClosedRequest, headers |-> <<>>, body |-> ""]

\* std::promise::set_value: a second call throws and leaves the value alone.
SetValue(p, v) == IF p.satisfied THEN p ELSE [satisfied |-> TRUE, value |-> v]

\* unordered_map::find of the id, compared with end() (lines 104-105, 166-167).
Found_Always(table, id) == TRUE

Found(table, id) == id \in table

\* unordered_map::erase of the entry found (lines 109, 171).
EraseEntry_Kept(table, id) == table

EraseEntry(table, id) == table \ {id}

\* A weak_ptr< Impl >::lock that always succeeds.
ImplAlive_Always == TRUE

\* weak_ptr< Impl >::lock succeeds while any shared_ptr to Impl exists: the one
\* of the Connections object or the local of a running delegate or lambda.
ImplAlive ==
    \/ implOwned
    \/ \E i \in Ids : cpc[i] \in {"lock", "set"}
    \/ \E k \in CancelThreads : kpc[k] \in {"lock", "set"}


(***************************************************************************)
(* Connections::QueueResourceRequest and the two functions it hands out.   *)
(***************************************************************************)
ResourceRequests ==
    { [method |-> "GET", uri |-> u,
       headers |-> << [key |-> "Accept", value |-> "*"] >>, body |-> ""] :
      u \in ResourceUris }

NoRequest == [method |-> "", target |-> EmptyUri, headers |-> <<>>, body |-> ""]

\* The value nextHttpClientTransactionId++ leaves in the counter (line 77).
PostIncrement_Unchanged(id) == id

PostIncrement(id) == id + 1

\* Lines 67-175, all under the lock_guard: take the next id, build the
\* Http::Request, store the client's transaction under the id, set its
\* completion delegate, and return the future and the cancel function.
QueueResourceRequest(request) ==
    /\ implOwned
    /\ mutex = "free"
    /\ LET id == nextHttpClientTransactionId
       IN  /\ nextHttpClientTransactionId' = PostIncrement(id)
           /\ httpRequested' = [method |-> request.method,
                                target |-> ResourceTarget(request.uri),
                                headers |-> request.headers,
                                body |-> request.body]
           /\ httpClientTransactions' = httpClientTransactions \cup {id}
           /\ transportTx' = [transportTx EXCEPT ![id] = InProgressTx]
           /\ responsePromise' = [responsePromise EXCEPT ![id] = UnsetPromise]
           /\ cpc' = [cpc EXCEPT ![id] = "armed"]
    /\ UNCHANGED <<implOwned, mutex, promiseFault, removedBy, kpc, kid, kLate, lateCancelReturned>>
    /\ UNCHANGED <<wsReqVars, attemptVars, adapterVars>>

\* The client ends the transaction in a terminal state and calls the
\* completion delegate, whose first statement is implWeak.lock() (lines 99-102).
CompletionDelegateFires(id, outcome) ==
    /\ cpc[id] = "armed"
    /\ transportTx' = [transportTx EXCEPT ![id] = outcome]
    /\ cpc' = [cpc EXCEPT ![id] = IF ImplAlive THEN "lock" ELSE "done"]
    /\ UNCHANGED <<implOwned, mutex, httpClientTransactions, nextHttpClientTransactionId,
                   httpRequested, responsePromise, promiseFault, removedBy, kpc, kid, kLate, lateCancelReturned>>
    /\ UNCHANGED <<wsReqVars, attemptVars, adapterVars>>

\* Lines 103-110: under the lock, find the id; return if it is gone, else erase
\* the entry and unlock.
CompletionDelegateErase(id) ==
    /\ cpc[id] = "lock"
    /\ mutex = "free"
    /\ IF Found(httpClientTransactions, id)
       THEN /\ httpClientTransactions' = EraseEntry(httpClientTransactions, id)
            /\ removedBy' = [removedBy EXCEPT ![id] = "completion"]
            /\ cpc' = [cpc EXCEPT ![id] = "set"]
       ELSE /\ cpc' = [cpc EXCEPT ![id] = "done"]
            /\ UNCHANGED <<httpClientTransactions, removedBy>>
    /\ UNCHANGED <<implOwned, mutex, nextHttpClientTransactionId, httpRequested,
                   transportTx, responsePromise, promiseFault, kpc, kid, kLate, lateCancelReturned>>
    /\ UNCHANGED <<wsReqVars, attemptVars, adapterVars>>

\* Lines 111-152: log, build the Response and set the promise.
CompletionDelegateResolve(id) ==
    /\ cpc[id] = "set"
    /\ responsePromise' = [responsePromise EXCEPT
                             ![id] = SetValue(@, TranslateResponse(transportTx[id]))]
    /\ promiseFault' = [promiseFault EXCEPT ![id] = @ \/ responsePromise[id].satisfied]
    /\ cpc' = [cpc EXCEPT ![id] = "done"]
    /\ UNCHANGED <<implOwned, mutex, httpClientTransactions, nextHttpClientTransactionId,
                   httpRequested, transportTx, removedBy, kpc, kid, kLate, lateCancelReturned>>
    /\ UNCHANGED <<wsReqVars, attemptVars, adapterVars>>

\* A thread calls the cancel function of transaction id; its first statement
\* is implWeak.lock() (lines 161-164).
CancelCall(k, id) ==
    /\ kpc[k] = "idle"
    /\ id < nextHttpClientTransactionId
    /\ IF ImplAlive
       THEN /\ kpc' = [kpc EXCEPT ![k] = "lock"]
            /\ kid' = [kid EXCEPT ![k] = id]
            /\ kLate' = [kLate EXCEPT ![k] = id \notin httpClientTransactions]
       ELSE UNCHANGED <<kpc, kid, kLate>>
    /\ UNCHANGED <<implOwned, mutex, httpClientTransactions, nextHttpClientTransactionId,
                   httpRequested, transportTx, responsePromise, promiseFault, removedBy, cpc,
                   lateCancelReturned>>
    /\ UNCHANGED <<wsReqVars, attemptVars, adapterVars>>

\* Lines 165-172: under the lock, find the id; return if it is gone, else erase
\* the entry and unlock.
CancelErase(k) ==
    /\ kpc[k] = "lock"
    /\ mutex = "free"
    /\ IF Found(httpClientTransactions, kid[k])
       THEN /\ httpClientTransactions' = EraseEntry(httpClientTransactions, kid[k])
            /\ removedBy' = [removedBy EXCEPT ![kid[k]] = "cancel"]
            /\ kpc' = [kpc EXCEPT ![k] = "set"]
            /\ UNCHANGED <<kid, kLate, lateCancelReturned>>
       ELSE /\ kpc' = [kpc EXCEPT ![k] = "idle"]
            /\ kid' = [kid EXCEPT ![k] = 0]
            /\ kLate' = [kLate EXCEPT ![k] = FALSE]
            /\ lateCancelReturned' = (lateCancelReturned \/ kLate[k])
            /\ UNCHANGED <<httpClientTransactions, removedBy>>
    /\ UNCHANGED <<implOwned, mutex, nextHttpClientTransactionId, httpRequested,
                   transportTx, responsePromise, promiseFault, cpc>>
    /\ UNCHANGED <<wsReqVars, attemptVars, adapterVars>>

\* Line 173: responsePromise->set_value({499}).
CancelResolve(k) ==
    /\ kpc[k] = "set"
    /\ responsePromise' = [responsePromise EXCEPT ![kid[k]] = SetValue(@, CancelledResponse)]
    /\ promiseFault' = [promiseFault EXCEPT
                          ![kid[k]] = @ \/ responsePromise[kid[k]].satisfied]
    /\ kpc' = [kpc EXCEPT ![k] = "idle"]
    /\ kid' = [kid EXCEPT ![k] = 0]
    /\ kLate' = [kLate EXCEPT ![k] = FALSE]
    /\ UNCHANGED <<implOwned, mutex, httpClientTransactions, nextHttpClientTransactionId,
                   httpRequested, transportTx, removedBy, cpc, lateCancelReturned>>
    /\ UNCHANGED <<wsReqVars, attemptVars, adapterVars>>

\* Connections::~Connections (line 42): the object gives up impl_.  No member
\* function is running when the object is destroyed.
DestroyConnections ==
    /\ implOwned
    /\ wpc \in {"idle", "returned"}
    /\ implOwned' = FALSE
    /\ UNCHANGED <<mutex, httpClientTransactions, nextHttpClientTransactionId,
                   httpRequested, transportTx, responsePromise, promiseFault, removedBy,
                   cpc, kpc, kid, kLate, lateCancelReturned>>
    /\ UNCHANGED <<wsReqVars, attemptVars, adapterVars>>


(***************************************************************************)
(* ConnectWebSocket and ConnectWebSocketSynchronous.  The critical         *)
(* sections on MakeConnectionSharedContext::mutex (the predicate check of  *)
(* Wait, the completion delegate, abortConnection) are one action each:    *)
(* condition_variable::wait releases the mutex as it blocks.               *)
(***************************************************************************)
NoTransaction == [state |-> "InProgress", statusCode |-> 0]

\* Http::IClient::Transaction::State as the switch of lines 178-230 sees it;
\* "Unknown" stands for any value outside the enumeration.
TerminalStates == {"Completed", "UnableToConnect", "Broken", "Timeout", "Unknown"}

StatusCodes == {SwitchingProtocols, 404}

\* Lines 242-259: make the shared context, start the worker with std::async,
\* and return the future and abortConnection.
ConnectWebSocket(uri) ==
    /\ attemptUri' = uri
    /\ workerPc' = "start"
    /\ connectionFuture' = "pending"
    /\ UNCHANGED <<abortAttempt, transactionCompleted, cvNotified, waitResult, wsEngaged,
                   staleEngagedWrite, wsRequest, wsTransaction, tpc, diag, abortFirst>>

\* Lines 115-170: parse the uri (an invalid one ends the attempt), default
\* the port, form the request, hand it to the client with the upgrade
\* callback, and set the completion delegate.
WorkerStart ==
    /\ workerPc = "start"
    /\ LET parsed == ParseFromString(attemptUri)
       IN  IF ~parsed.ok
           THEN /\ diag' = Append(diag, "error: WebSocket URI is invalid")
                /\ connectionFuture' = "null"
                /\ workerPc' = "done"
                /\ UNCHANGED <<wsRequest, tpc>>
           ELSE /\ diag' = Append(diag, "Connecting...")
                /\ wsRequest' = [method |-> "GET", target |-> WebSocketTarget(parsed.uri),
                                 headers |-> <<>>, body |-> ""]
                /\ tpc' = "inflight"
                /\ workerPc' = "wait"
                /\ UNCHANGED connectionFuture
    /\ UNCHANGED <<attemptUri, abortAttempt, transactionCompleted, cvNotified, waitResult,
                   wsEngaged, staleEngagedWrite, wsTransaction, abortFirst>>
    /\ UNCHANGED <<connVars, wsReqVars, adapterVars>>

\* A predicate that looks at the abort flag alone.
WaitDone_AbortOnly == abortAttempt

\* The predicate of Wait (line 69).
WaitDone == abortAttempt \/ transactionCompleted

\* What Wait returns (line 72).
WaitReturn_Completed == transactionCompleted

WaitReturn == ~abortAttempt

\* Lines 64-73: under the mutex, return when the predicate holds, else block
\* on connectionWaitDone.
WorkerWait ==
    /\ workerPc = "wait"
    /\ IF WaitDone
       THEN /\ waitResult' = WaitReturn
            /\ workerPc' = "woke"
       ELSE /\ workerPc' = "blocked"
            /\ UNCHANGED waitResult
    /\ UNCHANGED <<attemptUri, abortAttempt, transactionCompleted, cvNotified, wsEngaged,
                   staleEngagedWrite, wsRequest, wsTransaction, tpc, connectionFuture,
                   diag, abortFirst>>
    /\ UNCHANGED <<connVars, wsReqVars, adapterVars>>

\* A notify_one wakes the blocked worker, which checks the predicate again.
WorkerWake ==
    /\ workerPc = "blocked"
    /\ cvNotified
    /\ workerPc' = "wait"
    /\ cvNotified' = FALSE
    /\ UNCHANGED <<attemptUri, abortAttempt, transactionCompleted, waitResult, wsEngaged,
                   staleEngagedWrite, wsRequest, wsTransaction, tpc, connectionFuture,
                   diag, abortFirst>>
    /\ UNCHANGED <<connVars, wsReqVars, adapterVars>>

\* The warning of lines 192-197, "Got back response: %u %s"; the reason
\* phrase is left out.
GotBackResponse(statusCode) == "warning: Got back response: " \o ToString(statusCode)

\* The message the switch of lines 178-230 publishes.
ClassifyMessage_StatusIgnored(tx, engaged) ==
    CASE tx.state = "Completed" /\ engaged -> "Connection established."
      [] tx.state = "Completed" /\ ~engaged -> GotBackResponse(tx.statusCode)
      [] tx.state = "UnableToConnect" -> "warning: unable to connect"
      [] tx.state = "Broken" -> "warning: connection broken by server"
      [] tx.state = "Timeout" -> "warning: timeout waiting for response"
      [] OTHER -> "error: Unknown transaction state"

ClassifyMessage(tx, engaged) ==
    CASE tx.state = "Completed" /\ engaged -> "Connection established."
      [] tx.state = "Completed" /\ ~engaged /\ tx.statusCode = SwitchingProtocols ->
             "warning: Connection upgraded, but failed to engage WebSocket"
      [] tx.state = "Completed" /\ ~engaged /\ tx.statusCode # SwitchingProtocols ->
             GotBackResponse(tx.statusCode)
      [] tx.state = "UnableToConnect" -> "warning: unable to connect"
      [] tx.state = "Broken" -> "warning: connection broken by server"
      [] tx.state = "Timeout" -> "warning: timeout waiting for response"
      [] OTHER -> "error: Unknown transaction state"

\* Lines 171-231: an aborted wait returns nullptr; otherwise publish the
\* outcome and return the WebSocket if the upgrade callback engaged it.
WorkerFinish ==
    /\ workerPc = "woke"
    /\ IF ~waitResult
       THEN /\ diag' = Append(diag, "warning: connection aborted")
            /\ connectionFuture' = "null"
       ELSE /\ diag' = Append(diag, ClassifyMessage(wsTransaction, wsEngaged))
            /\ connectionFuture' = IF wsEngaged THEN "ws" ELSE "null"
    /\ workerPc' = "done"
    /\ UNCHANGED <<attemptUri, abortAttempt, transactionCompleted, cvNotified, waitResult,
                   wsEngaged, staleEngagedWrite, wsRequest, wsTransaction, tpc, abortFirst>>
    /\ UNCHANGED <<connVars, wsReqVars, adapterVars>>

\* The client got a response and calls the upgrade callback (lines 151-162):
\* wsEngaged, captured by reference, is set if FinishOpenAsClient engages,
\* which takes a 101 response.  The local is gone once the worker returned.
UpgradeCallback(status, engages) ==
    /\ tpc = "inflight"
    /\ engages => status = SwitchingProtocols
    /\ wsTransaction' = [wsTransaction EXCEPT !.statusCode = status]
    /\ IF engages
       THEN IF workerPc = "done"
            THEN staleEngagedWrite' = TRUE /\ UNCHANGED wsEngaged
            ELSE wsEngaged' = TRUE /\ UNCHANGED staleEngagedWrite
       ELSE UNCHANGED <<wsEngaged, staleEngagedWrite>>
    /\ tpc' = "responded"
    /\ UNCHANGED <<attemptUri, workerPc, abortAttempt, transactionCompleted, cvNotified,
                   waitResult, wsRequest, connectionFuture, diag, abortFirst>>
    /\ UNCHANGED <<connVars, wsReqVars, adapterVars>>

\* The client ends the transaction in a terminal state and calls the
\* completion delegate (lines 165-169).
AttemptCompletionDelegate(state) ==
    /\ tpc \in {"inflight", "responded"}
    /\ tpc = "inflight" => state # "Completed"
    /\ tpc = "responded" => state # "UnableToConnect"
    /\ wsTransaction' = [wsTransaction EXCEPT !.state = state]
    /\ transactionCompleted' = TRUE
    /\ cvNotified' = (cvNotified \/ workerPc = "blocked")
    /\ tpc' = "completed"
    /\ UNCHANGED <<attemptUri, workerPc, abortAttempt, waitResult, wsEngaged,
                   staleEngagedWrite, wsRequest, connectionFuture, diag, abortFirst>>
    /\ UNCHANGED <<connVars, wsReqVars, adapterVars>>

\* An abortConnection that inverts the flag.
AbortConnection_Toggle ==
    /\ connectionFuture # "none"
    /\ abortAttempt' = ~abortAttempt
    /\ cvNotified' = (cvNotified \/ workerPc = "blocked")
    /\ abortFirst' = (abortFirst \/ ~transactionCompleted)
    /\ UNCHANGED <<attemptUri, workerPc, transactionCompleted, waitResult, wsEngaged,
                   staleEngagedWrite, wsRequest, wsTransaction, tpc, connectionFuture, diag>>
    /\ UNCHANGED <<connVars, wsReqVars, adapterVars>>

\* abortConnection (lines 254-258).
AbortConnection ==
    /\ connectionFuture # "none"
    /\ abortAttempt' = TRUE
    /\ cvNotified' = (cvNotified \/ workerPc = "blocked")
    /\ abortFirst' = (abortFirst \/ ~transactionCompleted)
    /\ UNCHANGED <<attemptUri, workerPc, transactionCompleted, waitResult, wsEngaged,
                   staleEngagedWrite, wsRequest, wsTransaction, tpc, connectionFuture, diag>>
    /\ UNCHANGED <<connVars, wsReqVars, adapterVars>>

\* A caller of ConnectWebSocket other than Connections.
CallConnectWebSocket(uri) ==
    /\ connectionFuture = "none"
    /\ ConnectWebSocket(uri)
    /\ UNCHANGED <<connVars, wsReqVars, adapterVars>>


(***************************************************************************)
(* Connections::QueueWebSocketRequest.  The unique_lock of line 182 is     *)
(* held until the function returns.                                        *)
(***************************************************************************)
\* Lines 182-218: lock, make the promise and the cancel flag, call
\* ConnectWebSocket.
WebSocketRequestBegin(uri) ==
    /\ wpc = "idle"
    /\ implOwned
    /\ mutex = "free"
    /\ connectionFuture = "none"
    /\ mutex' = "QueueWebSocketRequest"
    /\ cancelWebSocketConnection' = FALSE
    /\ ConnectWebSocket(uri)
    /\ wpc' = "poll"
    /\ UNCHANGED <<implOwned, httpClientTransactions, nextHttpClientTransactionId,
                   httpRequested, transportTx, responsePromise, promiseFault, removedBy,
                   cpc, kpc, kid, kLate, lateCancelReturned>>
    /\ UNCHANGED <<webSocketPromise, staleCancelWrite, pollTick, adapterVars>>

\* Lines 222-230, an iteration that goes round: the flag is clear and wait_for
\* returned after its 100 ms with the future not ready.
WebSocketRequestPoll ==
    /\ wpc = "poll"
    /\ ~cancelWebSocketConnection
    /\ connectionFuture = "pending"
    /\ pollTick' = ~pollTick
    /\ UNCHANGED <<connVars, attemptVars, adapterVars>>
    /\ UNCHANGED <<wpc, webSocketPromise, cancelWebSocketConnection, staleCancelWrite>>

\* Lines 222-230: the loop ends when the flag is set or the future is ready.
WebSocketRequestPollDone ==
    /\ wpc = "poll"
    /\ cancelWebSocketConnection \/ connectionFuture # "pending"
    /\ wpc' = "resolve"
    /\ UNCHANGED <<connVars, attemptVars, adapterVars>>
    /\ UNCHANGED <<webSocketPromise, cancelWebSocketConnection, staleCancelWrite, pollTick>>

\* Lines 234-257: set the promise, with nullptr or with the wrapper.
WebSocketRequestResolve ==
    /\ wpc = "resolve"
    /\ webSocketPromise' = IF cancelWebSocketConnection THEN "null"
                           ELSE IF connectionFuture = "ws" THEN "wrapper" ELSE "null"
    /\ wpc' = "return"
    /\ UNCHANGED <<connVars, attemptVars, adapterVars>>
    /\ UNCHANGED <<cancelWebSocketConnection, staleCancelWrite, pollTick>>

\* Line 258: the locals are destroyed (the destructor of a std::async future
\* waits for the worker) and the lock is released.
WebSocketRequestReturn ==
    /\ wpc = "return"
    /\ workerPc = "done"
    /\ mutex' = "free"
    /\ wpc' = "returned"
    /\ UNCHANGED <<implOwned, httpClientTransactions, nextHttpClientTransactionId,
                   httpRequested, transportTx, responsePromise, promiseFault, removedBy,
                   cpc, kpc, kid, kLate, lateCancelReturned>>
    /\ UNCHANGED <<attemptVars, adapterVars>>
    /\ UNCHANGED <<webSocketPromise, cancelWebSocketConnection, staleCancelWrite, pollTick>>

\* The cancel function of the WebSocket transaction (lines 198-208).  Its
\* caller has it only once QueueWebSocketRequest returned, when the flag it
\* writes through the captured reference no longer exists.
WebSocketRequestCancel ==
    /\ wpc = "returned"
    /\ ImplAlive
    /\ mutex = "free"
    /\ staleCancelWrite' = TRUE
    /\ UNCHANGED <<connVars, attemptVars, adapterVars>>
    /\ UNCHANGED <<wpc, webSocketPromise, cancelWebSocketConnection, pollTick>>


(***************************************************************************)
(* The WebSocket adapter.  Text payloads are numbered in the order the      *)
(* connection delivers them; the connection calls its delegates one at a   *)
(* time, on its thread "connection"; RegisterTextCallback is called on the *)
(* thread "register", or by a handler on the thread that runs the handler. *)
(***************************************************************************)
Handlers == {1, 2}
NullCallback == 0
NoSend == [kind |-> "none", afterClose |-> FALSE]

\* Impl::mutex, a std::recursive_mutex (line 24): a thread can lock it when
\* no other thread owns it, and owns it until it has unlocked it as often as
\* it locked it.
FreeMutex == [owner |-> "none", count |-> 0]

CanLock(m, thread) == m.owner \in {"none", thread}

Lock(m, thread) == [owner |-> thread, count |-> m.count + 1]

Unlock(m) == IF m.count <= 1 THEN FreeMutex ELSE [m EXCEPT !.count = m.count - 1]

\* RegisterTextCallback's swap of its empty local vector with Impl::storedData
\* (lines 171-172).
SwapStoredData_Copied(member) == [local |-> member, member |-> member]

SwapStoredData(member) == [local |-> member, member |-> <<>>]

\* The text delegate (lines 119-126) takes the lock and calls OnText.
TextDelegate ==
    /\ opc = "idle"
    /\ arrived < MaxMessages
    /\ CanLock(wsMutex, "connection")
    /\ wsMutex' = Lock(wsMutex, "connection")
    /\ arrived' = arrived + 1
    /\ odata' = arrived + 1
    /\ opc' = "locked"
    /\ rQuiet' = FALSE
    /\ UNCHANGED <<onText, storedData, onTextSample, rpc, rSample, rStored, rEntry, rMark,
                   registerCalls, delivered>>
    /\ UNCHANGED <<connVars, wsReqVars, attemptVars, frameVars>>

\* OnText sampling the callback while it keeps the lock.
OnTextSample_Locked ==
    /\ opc = "locked"
    /\ onTextSample' = onText
    /\ opc' = "sampled"
    /\ UNCHANGED <<onText, storedData, odata, arrived, rpc, rSample, rStored, rEntry,
                   rMark, rQuiet, registerCalls, delivered, wsMutex>>
    /\ UNCHANGED <<connVars, wsReqVars, attemptVars, frameVars>>

\* Lines 62-68: OnText samples the callback and unlocks.
OnTextSample ==
    /\ opc = "locked"
    /\ onTextSample' = onText
    /\ wsMutex' = Unlock(wsMutex)
    /\ opc' = "sampled"
    /\ UNCHANGED <<onText, storedData, odata, arrived, rpc, rSample, rStored, rEntry,
                   rMark, rQuiet, registerCalls, delivered>>
    /\ UNCHANGED <<connVars, wsReqVars, attemptVars, frameVars>>

\* Lines 69-71 and the delegate's return: no callback was sampled, so lock
\* again and store the payload.
OnTextStore ==
    /\ opc = "sampled"
    /\ onTextSample = NullCallback
    /\ CanLock(wsMutex, "connection")
    /\ wsMutex' = Unlock(Lock(wsMutex, "connection"))
    /\ storedData' = Append(storedData, odata)
    /\ opc' = "idle"
    /\ rQuiet' = FALSE
    /\ UNCHANGED <<onText, odata, onTextSample, arrived, rpc, rSample, rStored, rEntry,
                   rMark, registerCalls, delivered>>
    /\ UNCHANGED <<connVars, wsReqVars, attemptVars, frameVars>>

\* Lines 72-75 and the delegate's return: call the sampled callback, unlocked.
OnTextDeliver ==
    /\ opc = "sampled"
    /\ onTextSample # NullCallback
    /\ CanLock(wsMutex, "connection")
    /\ wsMutex' = Unlock(Lock(wsMutex, "connection"))
    /\ delivered' = Append(delivered, [handler |-> onTextSample, data |-> odata])
    /\ opc' = "idle"
    /\ rQuiet' = FALSE
    /\ UNCHANGED <<onText, storedData, odata, onTextSample, arrived, rpc, rSample,
                   rStored, rEntry, rMark, registerCalls>>
    /\ UNCHANGED <<connVars, wsReqVars, attemptVars, frameVars>>

\* Lines 165-174: under the lock, store the callback; if there is stored data
\* and the callback is not null, swap the data out, sample the callback and
\* unlock; otherwise return.
RegisterTextCallback(h) ==
    /\ rpc \in {"idle", "returned"}
    /\ registerCalls < MaxRegisterCalls
    /\ CanLock(wsMutex, "register")
    /\ wsMutex' = Unlock(Lock(wsMutex, "register"))
    /\ registerCalls' = registerCalls + 1
    /\ onText' = h
    /\ rEntry' = storedData
    /\ rMark' = Len(delivered)
    /\ rQuiet' = (opc = "idle")
    /\ IF storedData # <<>> /\ h # NullCallback
       THEN /\ rStored' = SwapStoredData(storedData).local
            /\ storedData' = SwapStoredData(storedData).member
            /\ rSample' = h
            /\ rpc' = "flush"
       ELSE /\ rpc' = "returned"
            /\ UNCHANGED <<storedData, rStored, rSample>>
    /\ UNCHANGED <<opc, odata, onTextSample, arrived, delivered>>
    /\ UNCHANGED <<connVars, wsReqVars, attemptVars, frameVars>>

\* Lines 175-177: one iteration of the loop that calls the sampled callback
\* with each swapped-out message; the call returns after the last one.
RegisterFlush ==
    /\ rpc = "flush"
    /\ delivered' = Append(delivered, [handler |-> rSample, data |-> Head(rStored)])
    /\ rStored' = Tail(rStored)
    /\ rpc' = IF Tail(rStored) = <<>> THEN "returned" ELSE "flush"
    /\ UNCHANGED <<onText, storedData, opc, odata, onTextSample, arrived, rSample,
                   rEntry, rMark, rQuiet, registerCalls, wsMutex>>
    /\ UNCHANGED <<connVars, wsReqVars, attemptVars, frameVars>>

\* What a RegisterTextCallback(h) that a handler calls hands to h before it
\* returns to the handler: the stored data, if there is any and h is not null
\* (lines 167-177).
NestedFlush(h) ==
    IF storedData # <<>> /\ h # NullCallback
    THEN [i \in 1..Len(storedData) |->
             [handler |-> h, data |-> SwapStoredData(storedData).local[i]]]
    ELSE <<>>

\* What that call leaves in Impl::storedData.
NestedStored(h) ==
    IF storedData # <<>> /\ h # NullCallback
    THEN SwapStoredData(storedData).member
    ELSE storedData

\* OnTextDeliver with a handler that calls RegisterTextCallback(h) itself,
\* on the connection's thread, before it returns.
OnTextDeliverReentrant(h) ==
    /\ opc = "sampled"
    /\ onTextSample # NullCallback
    /\ registerCalls < MaxRegisterCalls
    /\ CanLock(wsMutex, "connection")
    /\ wsMutex' = Unlock(Lock(Unlock(Lock(wsMutex, "connection")), "connection"))
    /\ registerCalls' = registerCalls + 1
    /\ onText' = h
    /\ storedData' = NestedStored(h)
    /\ delivered' = Append(delivered, [handler |-> onTextSample, data |-> odata])
                        \o NestedFlush(h)
    /\ opc' = "idle"
    /\ rQuiet' = FALSE
    /\ UNCHANGED <<odata, onTextSample, arrived, rpc, rSample, rStored, rEntry, rMark>>
    /\ UNCHANGED <<connVars, wsReqVars, attemptVars, frameVars>>

\* RegisterFlush with a handler that calls RegisterTextCallback(h) itself,
\* on the registering thread, before it returns.
RegisterFlushReentrant(h) ==
    /\ rpc = "flush"
    /\ registerCalls < MaxRegisterCalls
    /\ CanLock(wsMutex, "register")
    /\ wsMutex' = Unlock(Lock(wsMutex, "register"))
    /\ registerCalls' = registerCalls + 1
    /\ onText' = h
    /\ storedData' = NestedStored(h)
    /\ delivered' = Append(delivered, [handler |-> rSample, data |-> Head(rStored)])
                        \o NestedFlush(h)
    /\ rStored' = Tail(rStored)
    /\ rpc' = IF Tail(rStored) = <<>> THEN "returned" ELSE "flush"
    /\ UNCHANGED <<opc, odata, onTextSample, arrived, rSample, rEntry, rMark, rQuiet>>
    /\ UNCHANGED <<connVars, wsReqVars, attemptVars, frameVars>>

(***************************************************************************)
(* The other delegates of the adapter and its send operations.  The        *)
(* connection calls the ping, pong, binary and close delegates on its      *)
(* thread, one delegate at a time; the application calls the rest.         *)
(***************************************************************************)
textVars == <<onText, storedData, opc, odata, onTextSample, arrived, rpc, rSample,
              rStored, rEntry, rMark, rQuiet, registerCalls, delivered>>

\* Lines 158-159: RegisterBinaryCallback has an empty body; Impl has no
\* member for the function, which is dropped.
RegisterBinaryCallback(fn) ==
    /\ binaryGiven' = fn
    /\ UNCHANGED <<closeGiven, forwarded, notified, lastKind, closeReceived, sendCalls,
                   lastSend, sent>>
    /\ UNCHANGED <<textVars, wsMutex, connVars, wsReqVars, attemptVars>>

\* Lines 161-162: RegisterCloseCallback has an empty body.
RegisterCloseCallback(fn) ==
    /\ closeGiven' = fn
    /\ UNCHANGED <<binaryGiven, forwarded, notified, lastKind, closeReceived, sendCalls,
                   lastSend, sent>>
    /\ UNCHANGED <<textVars, wsMutex, connVars, wsReqVars, attemptVars>>

\* A delegate of lines 103-145 other than the text delegate: lock, call the
\* Impl method of lines 35-56, whose body is empty, and unlock on return.
Notification(kind) ==
    /\ opc = "idle"
    /\ notified < MaxNotifications
    /\ CanLock(wsMutex, "connection")
    /\ wsMutex' = Unlock(Lock(wsMutex, "connection"))
    /\ notified' = notified + 1
    /\ lastKind' = kind
    /\ closeReceived' = (closeReceived \/ kind = "close")
    /\ UNCHANGED <<binaryGiven, closeGiven, forwarded, sendCalls, lastSend, sent>>
    /\ UNCHANGED <<textVars, connVars, wsReqVars, attemptVars>>

PingDelegate == Notification("ping")

PongDelegate == Notification("pong")

BinaryDelegate == Notification("binary")

CloseDelegate == Notification("close")

\* A send operation of lines 149-156, each with an empty body: nothing is
\* handed to Impl::adaptee.
SendCall(kind) ==
    /\ sendCalls < MaxSendCalls
    /\ sendCalls' = sendCalls + 1
    /\ lastSend' = [kind |-> kind, afterClose |-> closeReceived]
    /\ UNCHANGED <<binaryGiven, closeGiven, forwarded, notified, lastKind, closeReceived,
                   sent>>
    /\ UNCHANGED <<textVars, wsMutex, connVars, wsReqVars, attemptVars>>

\* A Text that hands the message to the wrapped connection.
Text_Forwarded(message) ==
    /\ sendCalls < MaxSendCalls
    /\ sendCalls' = sendCalls + 1
    /\ lastSend' = [kind |-> "Text", afterClose |-> closeReceived]
    /\ sent' = Append(sent, message)
    /\ UNCHANGED <<binaryGiven, closeGiven, forwarded, notified, lastKind, closeReceived>>
    /\ UNCHANGED <<textVars, wsMutex, connVars, wsReqVars, attemptVars>>

Text(message) == SendCall("Text")

Binary(message) == SendCall("Binary")

Close == SendCall("Close")


(***************************************************************************)
(* The state after construction, and the specifications.                   *)
(***************************************************************************)
Init ==
    /\ implOwned = TRUE
    /\ mutex = "free"
    /\ httpClientTransactions = {}
    /\ nextHttpClientTransactionId = 1
    /\ httpRequested = NoRequest
    /\ transportTx = [i \in Ids |-> InProgressTx]
    /\ responsePromise = [i \in Ids |-> UnsetPromise]
    /\ promiseFault = [i \in Ids |-> FALSE]
    /\ removedBy = [i \in Ids |-> "none"]
    /\ cpc = [i \in Ids |-> "none"]
    /\ kpc = [k \in CancelThreads |-> "idle"]
    /\ kid = [k \in CancelThreads |-> 0]
    /\ kLate = [k \in CancelThreads |-> FALSE]
    /\ lateCancelReturned = FALSE
    /\ wpc = "idle"
    /\ webSocketPromise = "unset"
    /\ pollTick = FALSE
    /\ cancelWebSocketConnection = FALSE
    /\ staleCancelWrite = FALSE
    /\ attemptUri = [valid |-> FALSE, scheme |-> "", hasPort |-> FALSE, port |-> 0]
    /\ workerPc = "none"
    /\ abortAttempt = FALSE
    /\ transactionCompleted = FALSE
    /\ cvNotified = FALSE
    /\ waitResult = FALSE
    /\ wsEngaged = FALSE
    /\ staleEngagedWrite = FALSE
    /\ wsRequest = NoRequest
    /\ wsTransaction = NoTransaction
    /\ tpc = "none"
    /\ connectionFuture = "none"
    /\ diag = <<>>
    /\ abortFirst = FALSE
    /\ onText = NullCallback
    /\ storedData = <<>>
    /\ opc = "idle"
    /\ odata = 0
    /\ onTextSample = NullCallback
    /\ arrived = 0
    /\ rpc = "idle"
    /\ rSample = NullCallback
    /\ rStored = <<>>
    /\ rEntry = <<>>
    /\ rMark = 0
    /\ rQuiet = FALSE
    /\ wsMutex = FreeMutex
    /\ registerCalls = 0
    /\ delivered = <<>>
    /\ binaryGiven = NullCallback
    /\ closeGiven = NullCallback
    /\ forwarded = <<>>
    /\ notified = 0
    /\ lastKind = "none"
    /\ closeReceived = FALSE
    /\ sendCalls = 0
    /\ lastSend = NoSend
    /\ sent = <<>>

\* The worker of an upgrade attempt and the client's thread serving it.
AttemptStep ==
    \/ WorkerStart
    \/ WorkerWait
    \/ WorkerWake
    \/ WorkerFinish
    \/ \E status \in StatusCodes, engages \in BOOLEAN : UpgradeCallback(status, engages)
    \/ \E state \in TerminalStates : AttemptCompletionDelegate(state)

\* The resource transactions of a Connections object: the threads that queue
\* requests and cancel them, and the client's threads that complete them.
ResourceStepOf(maxIssued, requests, outcomes) ==
    \/ \E request \in requests :
           /\ nextHttpClientTransactionId <= maxIssued
           /\ QueueResourceRequest(request)
    \/ \E id \in Ids, outcome \in outcomes : CompletionDelegateFires(id, outcome)
    \/ \E id \in Ids : CompletionDelegateErase(id)
    \/ \E id \in Ids : CompletionDelegateResolve(id)
    \/ \E k \in CancelThreads, id \in Ids : CancelCall(k, id)
    \/ \E k \in CancelThreads : CancelErase(k)
    \/ \E k \in CancelThreads : CancelResolve(k)
    \/ DestroyConnections

ResourceStep == ResourceStepOf(MaxTransactions, ResourceRequests, TransportOutcomes)

\* A Connections object and every thread that uses it.
Next ==
    \/ ResourceStep
    \/ \E uri \in WebSocketUris : WebSocketRequestBegin(uri)
    \/ WebSocketRequestPoll
    \/ WebSocketRequestPollDone
    \/ WebSocketRequestResolve
    \/ WebSocketRequestReturn
    \/ WebSocketRequestCancel
    \/ AttemptStep

Spec == Init /\ [][Next]_vars

\* The threads of the program keep running; the client need not ever end a
\* transaction and the application need not ever call anything.
ThreadFairness ==
    /\ \A id \in Ids : WF_vars(CompletionDelegateErase(id))
    /\ \A id \in Ids : WF_vars(CompletionDelegateResolve(id))
    /\ \A k \in CancelThreads : WF_vars(CancelErase(k))
    /\ \A k \in CancelThreads : WF_vars(CancelResolve(k))
    /\ WF_vars(WebSocketRequestPoll)
    /\ WF_vars(WebSocketRequestPollDone)
    /\ WF_vars(WebSocketRequestResolve)
    /\ WF_vars(WebSocketRequestReturn)
    /\ WF_vars(WorkerStart)
    /\ WF_vars(WorkerWait)
    /\ WF_vars(WorkerWake)
    /\ WF_vars(WorkerFinish)

FairSpec == Spec /\ ThreadFairness

\* A Connections object on which only resource requests are made.
SpecResource == Init /\ [][ResourceStep]_vars

FairSpecResource == SpecResource /\ ThreadFairness

\* A Connections object on which more resource requests are made, all for
\* one uri and all ended by the client in one way.
NextIssue ==
    ResourceStepOf(MaxIssued,
                   { r \in ResourceRequests : r.uri.scheme = "https" /\ ~r.uri.hasPort },
                   { o \in TransportOutcomes : o.state = "Completed" })

SpecIssue == Init /\ [][NextIssue]_vars

\* One upgrade attempt started by a caller that may abort it.
NextAttempt ==
    \/ \E uri \in WebSocketUris : CallConnectWebSocket(uri)
    \/ AbortConnection
    \/ AttemptStep

SpecAttempt == Init /\ [][NextAttempt]_vars

FairSpecAttempt ==
    /\ SpecAttempt
    /\ WF_vars(WorkerStart)
    /\ WF_vars(WorkerWait)
    /\ WF_vars(WorkerWake)
    /\ WF_vars(WorkerFinish)

\* One adapter, the connection's thread and a thread that registers callbacks.
NextAdapter ==
    \/ TextDelegate
    \/ OnTextSample
    \/ OnTextStore
    \/ OnTextDeliver
    \/ \E h \in Handlers \cup {NullCallback} : RegisterTextCallback(h)
    \/ RegisterFlush

SpecAdapter == Init /\ [][NextAdapter]_vars

\* The same with handlers that may call RegisterTextCallback themselves; the
\* threads keep running, the connection need not deliver anything and the
\* application need not register anything.
NextReentrant ==
    \/ NextAdapter
    \/ \E h \in Handlers \cup {NullCallback} : OnTextDeliverReentrant(h)
    \/ \E h \in Handlers \cup {NullCallback} : RegisterFlushReentrant(h)

FairSpecReentrant ==
    /\ Init /\ [][NextReentrant]_vars
    /\ WF_vars(OnTextSample)
    /\ WF_vars(OnTextStore)
    /\ WF_vars(OnTextDeliver \/ \E h \in Handlers \cup {NullCallback} : OnTextDeliverReentrant(h))
    /\ WF_vars(RegisterFlush \/ \E h \in Handlers \cup {NullCallback} : RegisterFlushReentrant(h))

\* The adapter with the notifications other than text and the callbacks
\* registered for them.
NextNotifications ==
    \/ NextAdapter
    \/ \E fn \in Handlers \cup {NullCallback} : RegisterBinaryCallback(fn)
    \/ \E fn \in Handlers \cup {NullCallback} : RegisterCloseCallback(fn)
    \/ PingDelegate
    \/ PongDelegate
    \/ BinaryDelegate
    \/ CloseDelegate

SpecNotifications == Init /\ [][NextNotifications]_vars

\* The adapter with close notifications and the send operations.
NextSends ==
    \/ NextAdapter
    \/ CloseDelegate
    \/ \E message \in 1..MaxMessages : Text(message)
    \/ \E message \in 1..MaxMessages : Binary(message)
    \/ Close

SpecSends == Init /\ [][NextSends]_vars



(***************************************************************************)
(* Properties of the resource transactions.                                *)
(***************************************************************************)
\* The threads that are about to call set_value on the promise of id.
Resolvers(id) ==
    (IF cpc[id] = "set" THEN {"completion"} ELSE {})
        \cup { k \in CancelThreads : kpc[k] = "set" /\ kid[k] = id }

\* The completion delegate or a cancel call of id is running, having found
\* the Connections object alive.
Invoked(id) ==
    \/ cpc[id] \in {"lock", "set"}
    \/ \E k \in CancelThreads : kpc[k] \in {"lock", "set"} /\ kid[k] = id

\* C1: the promise of a resource transaction is resolved at most once.  No
\* set_value is ever called on a satisfied promise; at most one thread ever
\* gets to call set_value, the one that erased the table entry, and every
\* other invocation finds the id gone.
C1_ResolvedAtMostOnce ==
    \A id \in Ids :
        /\ ~promiseFault[id]
        /\ Cardinality(Resolvers(id)) + (IF responsePromise[id].satisfied THEN 1 ELSE 0) <= 1
        /\ (Resolvers(id) # {} \/ responsePromise[id].satisfied) =>
               /\ id \notin httpClientTransactions
               /\ removedBy[id] # "none"

\* A cancel won, the promise is resolved, and the completion delegate then ran
\* on the live object and returned without resolving.
C1_Witness ==
    \E id \in Ids :
        /\ implOwned
        /\ responsePromise[id].satisfied
        /\ removedBy[id] = "cancel"
        /\ cpc[id] = "done"

\* C2: once the completion delegate of a resource transaction has fired or
\* its cancel function has been called, on a live Connections object, the
\* promise is eventually resolved.
C2_EventuallyResolved ==
    \A id \in Ids : [](Invoked(id) => <>responsePromise[id].satisfied)

C4_LateCancelIsNoOp ==
    [][\A k \in CancelThreads :
          (kLate[k] /\ kpc[k] = "lock" /\ kpc'[k] # "lock") =>
              /\ kpc'[k] = "idle"
              /\ httpClientTransactions' = httpClientTransactions
              /\ responsePromise' = responsePromise
              /\ promiseFault' = promiseFault
              /\ removedBy' = removedBy]_vars

\* A cancel call that found the entry gone has returned, and the promise is
\* resolved.
C4_Witness ==
    /\ lateCancelReturned
    /\ \E id \in Ids : responsePromise[id].satisfied /\ ~promiseFault[id]

\* C5: a request whose cancel erased the table entry resolves to status 499
\* with no headers and an empty body.
C5_CancelledIs499 ==
    \A id \in Ids :
        (responsePromise[id].satisfied /\ removedBy[id] = "cancel") =>
            /\ responsePromise[id].value.status = 499
            /\ responsePromise[id].value.headers = <<>>
            /\ responsePromise[id].value.body = ""

C5_Witness ==
    \E id \in Ids : responsePromise[id].satisfied /\ removedBy[id] = "cancel"

\* C6: when the completion delegate erased the entry, the Response equals
\* the client's response field by field, whatever the terminal state, and a
\* delegate that has returned has resolved the promise.
C6_ResponseEqualsTransport ==
    \A id \in Ids :
        removedBy[id] = "completion" =>
            /\ cpc[id] = "done" => responsePromise[id].satisfied
            /\ responsePromise[id].satisfied =>
                   LET result == responsePromise[id].value
                       response == transportTx[id].response
                   IN  /\ transportTx[id].state \in
                              {"Completed", "UnableToConnect", "Broken", "Timeout"}
                       /\ result.status = response.statusCode
                       /\ result.body = response.body
                       /\ Len(result.headers) = Len(response.headers)
                       /\ \A i \in 1..Len(response.headers) :
                              /\ result.headers[i].key = response.headers[i].name
                              /\ result.headers[i].value = response.headers[i].value

\* The completion delegate resolved the promise of a transaction the client
\* ended in a state other than Completed.
C6_Witness ==
    \E id \in Ids :
        /\ responsePromise[id].satisfied
        /\ removedBy[id] = "completion"
        /\ transportTx[id].state = "Broken"

(***************************************************************************)
(* Properties of the WebSocket adapter.                                    *)
(***************************************************************************)
\* No text delegate and no RegisterTextCallback call is in progress.
AdapterQuiescent == opc = "idle" /\ rpc \in {"idle", "returned"}

\* The number of times payload m was handed to handler h.
TimesDelivered(h, m) ==
    Cardinality({ i \in 1..Len(delivered) :
                      delivered[i].handler = h /\ delivered[i].data = m })

\* C7: with one RegisterTextCallback call, of a non-null handler, racing
\* with text arrivals, once nothing is in progress every payload that
\* arrived has been handed to the handler exactly once and storedData is
\* empty.
C7_NoLossNoDuplication ==
    (AdapterQuiescent /\ registerCalls = 1 /\ onText # NullCallback) =>
        /\ storedData = <<>>
        /\ \A m \in 1..arrived : TimesDelivered(onText, m) = 1

\* C8: with one RegisterTextCallback call racing with text arrivals, the
\* handler sees the payloads in the order they arrived: no payload is handed
\* over after one that arrived later.
C8_ArrivalOrder ==
    registerCalls <= 1 =>
        \A i, j \in 1..Len(delivered) :
            i < j => delivered[i].data < delivered[j].data

\* C9: a RegisterTextCallback call of a non-null handler during which no
\* text arrives and none is in progress hands the handler exactly the
\* payloads that were stored when it was called, in their order, before it
\* returns, and leaves storedData empty; for the first call these are all the
\* payloads that arrived.
C9_FlushOnRegister ==
    (rpc = "returned" /\ rQuiet /\ onText # NullCallback) =>
        /\ storedData = <<>>
        /\ Len(delivered) = rMark + Len(rEntry)
        /\ \A i \in 1..Len(rEntry) :
               delivered[rMark + i] = [handler |-> onText, data |-> rEntry[i]]
        /\ registerCalls = 1 => rEntry = [i \in 1..arrived |-> i]

\* Three payloads arrived before any registration; the one registration has
\* returned, having handed them over in order.
C9_Witness ==
    /\ rpc = "returned"
    /\ rQuiet
    /\ registerCalls = 1
    /\ onText # NullCallback
    /\ arrived = 3
    /\ storedData = <<>>
    /\ delivered = [i \in 1..3 |-> [handler |-> onText, data |-> i]]

(***************************************************************************)
(* Properties of the connection attempt.                                   *)
(***************************************************************************)
\* C10: when abortConnection runs before the client's completion delegate
\* (also before the worker reached Wait), the connection future never holds
\* a WebSocket and eventually holds nullptr, whatever the client reports
\* afterwards.
C10_AbortPrecedence ==
    /\ [](abortFirst => connectionFuture \in {"pending", "null"})
    /\ abortFirst ~> (connectionFuture = "null")

\* The attempt was aborted first, the upgrade then engaged the WebSocket and
\* the transaction ended Completed, and the future holds nullptr.
C10_Witness ==
    /\ abortFirst
    /\ wsEngaged
    /\ wsTransaction.state = "Completed"
    /\ wsTransaction.statusCode = SwitchingProtocols
    /\ connectionFuture = "null"

\* C11: an abortConnection that runs only after the completion delegate has
\* set transactionCompleted, for a transaction that ended Completed with the
\* upgrade engaged, has no effect: the attempt returns the WebSocket.
C11_LateAbortHasNoEffect ==
    (/\ workerPc = "done"
     /\ abortAttempt
     /\ ~abortFirst
     /\ wsTransaction.state = "Completed"
     /\ wsEngaged) => connectionFuture = "ws"

\* The messages ConnectWebSocketSynchronous publishes at warning level.
Warnings ==
    { "warning: connection aborted",
      "warning: Connection upgraded, but failed to engage WebSocket",
      "warning: unable to connect",
      "warning: connection broken by server",
      "warning: timeout waiting for response" }
        \cup { GotBackResponse(statusCode) : statusCode \in StatusCodes }

\* The messages of diag that are in the set S, in order.
Published(S) == SelectSeq(diag, LAMBDA msg : msg \in S)

\* C12: the attempt returns the WebSocket exactly when the wait ended without
\* abort, the transaction ended Completed and the upgrade engaged, and it
\* then has logged "Connection established." and no warning.
C12_WebSocketIffCompletedEngaged ==
    workerPc = "done" =>
        /\ (connectionFuture = "ws") <=>
               (waitResult /\ wsTransaction.state = "Completed" /\ wsEngaged)
        /\ (connectionFuture = "ws") =>
               /\ diag[Len(diag)] = "Connection established."
               /\ Published(Warnings) = <<>>

\* The warning that belongs to a terminal state other than Completed.
StateWarning(state) ==
    CASE state = "UnableToConnect" -> "warning: unable to connect"
      [] state = "Broken" -> "warning: connection broken by server"
      [] state = "Timeout" -> "warning: timeout waiting for response"

\* C13: when the wait ends without abort and the transaction ended
\* UnableToConnect, Broken or Timeout, the attempt logs the warning of that
\* state and returns nullptr, engaged or not.
C13_FailedStatesReturnNothing ==
    (/\ workerPc = "done"
     /\ waitResult
     /\ wsTransaction.state \in {"UnableToConnect", "Broken", "Timeout"}) =>
        /\ Published(Warnings) = <<StateWarning(wsTransaction.state)>>
        /\ connectionFuture = "null"

\* C14: when the wait ends without abort, the transaction ended Completed and
\* the upgrade did not engage, the attempt returns nullptr and has logged
\* exactly one warning: the "upgraded, but failed to engage" one for status
\* 101, the "Got back response" one for any other status, never both.
C14_NotEngagedWarning ==
    (/\ workerPc = "done"
     /\ waitResult
     /\ wsTransaction.state = "Completed"
     /\ ~wsEngaged) =>
        /\ connectionFuture = "null"
        /\ Published(Warnings) =
               IF wsTransaction.statusCode = 101
               THEN <<"warning: Connection upgraded, but failed to engage WebSocket">>
               ELSE <<GotBackResponse(wsTransaction.statusCode)>>

\* The spec's scenario: a wss attempt got 101, FinishOpenAsClient returned
\* false, the transaction ended Completed and the attempt returned nullptr.
C14_Witness ==
    /\ workerPc = "done"
    /\ waitResult
    /\ attemptUri.scheme = "wss"
    /\ wsTransaction = [state |-> "Completed", statusCode |-> SwitchingProtocols]
    /\ ~wsEngaged
    /\ ~staleEngagedWrite
    /\ connectionFuture = "null"

\* C15: when the wait ends without abort and the transaction ended in a
\* state outside the enumeration, the attempt logs the error, publishes no
\* warning, returns nullptr and so resolves the connection future.
C15_UnknownStateReturnsNothing ==
    (/\ workerPc = "done"
     /\ waitResult
     /\ wsTransaction.state = "Unknown") =>
        /\ diag[Len(diag)] = "error: Unknown transaction state"
        /\ Published(Warnings) = <<>>
        /\ connectionFuture = "null"

\* C16: an attempt whose uri does not parse ends in the worker's first step:
\* the error is the only message logged, the future holds nullptr, no request
\* has been handed to the client and the worker is never at or in Wait.
C16_InvalidUriEndsAttempt ==
    (~attemptUri.valid /\ workerPc \notin {"none", "start"}) =>
        /\ workerPc = "done"
        /\ diag = <<"error: WebSocket URI is invalid">>
        /\ connectionFuture = "null"
        /\ tpc = "none"
        /\ wsRequest = NoRequest
        /\ wsTransaction = NoTransaction
        /\ ~transactionCompleted

\* The worker of an attempt with an invalid uri has returned, and the caller
\* has called abortConnection since.
C16_Witness ==
    /\ ~attemptUri.valid
    /\ workerPc = "done"
    /\ connectionFuture = "null"
    /\ abortAttempt

\* The schemes of encrypted transport.
EncryptedSchemes == {"https", "wss"}

\* C17: whenever a request is handed to the client for a uri with scheme
\* https or wss and no explicit port, by a WebSocket attempt or by
\* QueueResourceRequest, the target of the request has port 443.
C17_DefaultPort ==
    /\ [](/\ tpc # "none"
          /\ attemptUri.scheme \in EncryptedSchemes
          /\ ~attemptUri.hasPort
          => wsRequest.target.hasPort /\ wsRequest.target.port = 443)
    /\ [][\A request \in ResourceRequests :
              (/\ QueueResourceRequest(request)
               /\ request.uri.scheme \in EncryptedSchemes
               /\ ~request.uri.hasPort)
              => httpRequested'.target.hasPort /\ httpRequested'.target.port = 443]_vars

\* C18: a call of QueueWebSocketRequest returns to its caller, also when the
\* client never ends the transaction of the attempt and nobody cancels.
C18_WebSocketRequestReturns ==
    (wpc = "poll") ~> (wpc = "returned")

(***************************************************************************)
(* Properties of the transaction ids.                                      *)
(***************************************************************************)
\* The ids some QueueResourceRequest call has obtained so far: those whose
\* completion delegate has been set.
Issued == { id \in Ids : cpc[id] # "none" }

\* C19: every QueueResourceRequest call obtains an id that no earlier call
\* obtained, also not one whose entry has been removed since, and that is
\* greater than every id obtained before; the entry is stored under it.
C19_IdsIncrease ==
    /\ [](\A id \in Issued : id < nextHttpClientTransactionId)
    /\ [](httpClientTransactions \subseteq Issued)
    /\ [][(\E request \in ResourceRequests : QueueResourceRequest(request)) =>
              \E id \in Ids \ Issued :
                  /\ \A earlier \in Issued : earlier < id
                  /\ Issued' = Issued \cup {id}
                  /\ httpClientTransactions' = httpClientTransactions \cup {id}]_vars

\* Two ids have been obtained; the entry of the first has been removed and
\* its promise resolved, the second is in the table.
C19_Witness ==
    /\ Issued = {1, 2}
    /\ 1 \notin httpClientTransactions
    /\ responsePromise[1].satisfied
    /\ 2 \in httpClientTransactions

\* C20: when OnText disposes of a payload, it appends it to storedData
\* exactly if no handler is registered at that moment; in particular it never
\* appends while onText holds a handler.
C20_StoredOnlyWithoutHandler ==
    [][(opc = "sampled" /\ opc' = "idle") =>
           /\ (storedData' = Append(storedData, odata)) <=> (onText = NullCallback)
           /\ Len(storedData') > Len(storedData) => onText = NullCallback]_vars

\* The payloads in a sequence of payloads.
Payloads(seq) == { seq[i] : i \in 1..Len(seq) }

\* The payloads handed to some handler so far.
DeliveredPayloads == { delivered[i].data : i \in 1..Len(delivered) }

\* C21: no payload is at once in storedData and handed to a handler, no
\* payload is handed over more than once, and what RegisterTextCallback
\* took out of storedData for delivery is no longer in storedData.
C21_BufferedXorDelivered ==
    /\ Payloads(storedData) \cap DeliveredPayloads = {}
    /\ \A i, j \in 1..Len(delivered) : delivered[i].data = delivered[j].data => i = j
    /\ \A i, j \in 1..Len(storedData) : storedData[i] = storedData[j] => i = j
    /\ rpc = "flush" =>
           /\ Payloads(rStored) \cap Payloads(storedData) = {}
           /\ Payloads(rStored) \cap DeliveredPayloads = {}

\* RegisterTextCallback is in its loop, has handed over the first of the
\* payloads it swapped out, and a payload that arrived since is stored.
C21_Witness ==
    /\ rpc = "flush"
    /\ Len(rEntry) >= 2
    /\ Len(delivered) > rMark
    /\ rStored # <<>>
    /\ storedData # <<>>

\* C22: the thread that runs a text handler, called by OnText or by the
\* loop of RegisterTextCallback, does not own Impl::mutex; a text delegate
\* that has started and a RegisterTextCallback that is in its loop finish,
\* also when handlers call RegisterTextCallback and the other thread is
\* active.
C22_HandlersRunUnlocked ==
    /\ []((opc = "sampled" /\ onTextSample # NullCallback) => wsMutex.owner # "connection")
    /\ []((rpc = "flush") => wsMutex.owner # "register")
    /\ (opc # "idle") ~> (opc = "idle")
    /\ (rpc = "flush") ~> (rpc = "returned")

\* Both threads are about to run a handler, a handler has registered another
\* one since RegisterTextCallback sampled its own, and the mutex is free.
C22_Witness ==
    /\ rpc = "flush"
    /\ onText # rSample
    /\ opc = "sampled"
    /\ onTextSample # NullCallback
    /\ wsMutex = FreeMutex

(***************************************************************************)
(* Properties of Impl::mutex of Connections.                               *)
(***************************************************************************)
\* C23: no thread calls set_value on a promise while it holds Impl::mutex:
\* not the completion delegate and not the cancel function of a resource
\* transaction (they are past the unlock of lines 110 and 172 when they are
\* about to set the promise), and not QueueWebSocketRequest when it is about
\* to set the WebSocket promise.
C23_PromiseSetUnlocked ==
    /\ \A id \in Ids : cpc[id] = "set" => mutex # "CompletionDelegate"
    /\ \A k \in CancelThreads : kpc[k] = "set" => mutex # "Cancel"
    /\ wpc = "resolve" => mutex # "QueueWebSocketRequest"

\* C24: the completion delegate or the cancel function of a resource
\* transaction that is at its lock while a QueueWebSocketRequest call waits
\* for the attempt gets the lock, and the promise of the transaction is
\* resolved.
C24_LockNotHeldAcrossWait ==
    /\ \A id \in Ids :
         (cpc[id] = "lock" /\ wpc = "poll") ~> responsePromise[id].satisfied
    /\ \A k \in CancelThreads :
         (kpc[k] = "lock" /\ wpc = "poll") ~> (kpc[k] = "idle")

\* C25: for every transaction QueueResourceRequest has issued, the id is in
\* the table exactly when neither the completion delegate nor a cancel call
\* has erased it, and then the promise is unresolved; a resolved promise has
\* its id out of the table; and only the set_value of the completion
\* delegate or of a cancel call that erased the entry changes the promise.
C25_TableIffUnresolved ==
    /\ [](\A id \in Issued :
            /\ (id \in httpClientTransactions) <=> (removedBy[id] = "none")
            /\ (id \in httpClientTransactions) <=>
                   (~responsePromise[id].satisfied /\ Resolvers(id) = {}
                      /\ removedBy[id] = "none")
            /\ responsePromise[id].satisfied => id \notin httpClientTransactions)
    /\ [][\A id \in Ids :
            responsePromise'[id] # responsePromise[id] =>
                /\ id \notin httpClientTransactions
                /\ \/ cpc[id] = "set" /\ cpc'[id] = "done" /\ removedBy[id] = "completion"
                   \/ \E k \in CancelThreads :
                        /\ kpc[k] = "set" /\ kid[k] = id /\ kpc'[k] = "idle"
                        /\ removedBy[id] = "cancel"]_vars

\* A cancel call erased the entry and resolved the promise of a transaction
\* whose completion delegate has not fired.
C25_Witness ==
    \E id \in Ids :
        /\ id \notin httpClientTransactions
        /\ removedBy[id] = "cancel"
        /\ responsePromise[id].satisfied
        /\ cpc[id] = "armed"

(***************************************************************************)
(* Properties of the shared context of an upgrade attempt.                 *)
(***************************************************************************)
\* C26: abortAttempt and transactionCompleted of the attempt's shared
\* context are monotonic: no step makes either of them false once it is true.
C26_FlagsMonotonic ==
    [][/\ abortAttempt => abortAttempt'
       /\ transactionCompleted => transactionCompleted']_vars

\* The completion delegate ran first, the worker returned the WebSocket, and
\* an abortConnection came after that: both flags are set.
C26_Witness ==
    /\ abortAttempt
    /\ transactionCompleted
    /\ ~abortFirst
    /\ workerPc = "done"
    /\ connectionFuture = "ws"

\* The connection future has a value.
FutureResolved == connectionFuture \in {"null", "ws"}

\* C27: once abortConnection ran or the completion delegate fired, whether
\* the worker has started to wait or not, the worker leaves Wait and the
\* connection future is resolved; and the worker leaves Wait only then: as
\* long as neither flag is set it stays in Wait.
C27_NoLostWakeup ==
    /\ (WaitDone /\ workerPc \in {"wait", "blocked"}) ~> (workerPc \in {"woke", "done"})
    /\ WaitDone ~> FutureResolved
    /\ [](workerPc = "woke" => WaitDone)
    /\ []((workerPc = "done" /\ attemptUri.valid) => WaitDone)
    /\ [][(workerPc = "blocked" /\ ~WaitDone') => workerPc' = "blocked"]_vars

\* The completion delegate fired while the worker was blocked in Wait: the
\* wake-up is pending and no abort was made.
C27_Witness ==
    /\ workerPc = "blocked"
    /\ cvNotified
    /\ transactionCompleted
    /\ ~abortAttempt

\* The attempt returned nullptr at line 176 because Wait reported the abort.
AbortedAttemptReturned ==
    /\ workerPc = "done"
    /\ Len(diag) > 0
    /\ diag[Len(diag)] = "warning: connection aborted"

\* C28: once an aborted attempt has returned, no call of the upgrade
\* callback writes the wsEngaged local of the returned
\* ConnectWebSocketSynchronous call.
C28_NoAccessAfterAbortReturn ==
    AbortedAttemptReturned => ~staleEngagedWrite

(***************************************************************************)
(* Properties of the cancel function of a WebSocket transaction.           *)
(***************************************************************************)
\* The worker of the attempt is in Wait and no flag is set.
AttemptWaiting == workerPc \in {"wait", "blocked"} /\ ~WaitDone

\* C29: while the attempt of a QueueWebSocketRequest call is waiting, the
\* cancel function of the transaction can be called, and every call of it
\* sets abortAttempt of the attempt.
C29_CancelAbortsAttempt ==
    /\ []((wpc = "poll" /\ AttemptWaiting) => ENABLED WebSocketRequestCancel)
    /\ [][WebSocketRequestCancel => abortAttempt']_vars

\* C30: a call of the cancel function of a WebSocket transaction made when
\* the promise is set changes neither the promise, nor the attempt and its
\* connection, nor the adapter, nor the resource transactions, and writes
\* no local of the QueueWebSocketRequest call that has returned.
C30_CancelAfterResolveIsNoOp ==
    [][(webSocketPromise # "unset" /\ WebSocketRequestCancel) =>
           /\ UNCHANGED <<webSocketPromise, connVars, attemptVars, adapterVars>>
           /\ ~staleCancelWrite']_vars

(***************************************************************************)
(* Properties of the port default with an explicit port.                   *)
(***************************************************************************)
\* C31: whenever a request is handed to the client for a uri that names a
\* port, by a WebSocket attempt or by QueueResourceRequest, the target of
\* the request has that port.
C31_ExplicitPortKept ==
    /\ [](/\ tpc # "none"
          /\ attemptUri.hasPort
          => wsRequest.target.hasPort /\ wsRequest.target.port = attemptUri.port)
    /\ [][\A request \in ResourceRequests :
              (/\ QueueResourceRequest(request)
               /\ request.uri.valid
               /\ request.uri.hasPort)
              => /\ httpRequested'.target.hasPort
                 /\ httpRequested'.target.port = request.uri.port]_vars

(***************************************************************************)
(* Properties of callbacks after the Connections object is destroyed.      *)
(***************************************************************************)
\* No completion delegate and no cancel function is past its
\* implWeak.lock(): no local shared_ptr to Impl exists.
NoCallbackRunning ==
    /\ \A id \in Ids : cpc[id] \notin {"lock", "set"}
    /\ \A k \in CancelThreads : kpc[k] \notin {"lock", "set"}

\* C32, as stated: once the Connections object is destroyed, a completion
\* delegate or a cancel function that starts returns at once: it does not
\* go on to the table and to the promise.
C32_DestroyedObjectUntouched ==
    [][~implOwned =>
          /\ \A id \in Ids : (cpc[id] = "armed" /\ cpc'[id] # "armed") => cpc'[id] = "done"
          /\ \A k \in CancelThreads : kpc[k] = "idle" => kpc'[k] = "idle"]_vars

\* C32, corrected: once the Connections object is destroyed and no callback
\* that found Impl alive is still running, a completion delegate or a cancel
\* function that starts returns at once, and no step changes the table or a
\* promise.
C32_DeadRegistryUntouched ==
    [][(~implOwned /\ NoCallbackRunning) =>
          /\ NoCallbackRunning'
          /\ UNCHANGED <<httpClientTransactions, responsePromise, removedBy>>]_vars

\* The completion delegate of a transaction fired after the object was
\* destroyed and returned: the entry is as it was and the promise is unset.
C32_Witness ==
    \E id \in Ids :
        /\ ~implOwned
        /\ NoCallbackRunning
        /\ cpc[id] = "done"
        /\ removedBy[id] = "none"
        /\ id \in httpClientTransactions
        /\ ~responsePromise[id].satisfied

(***************************************************************************)
(* Properties of the other notifications and of the send operations.       *)
(***************************************************************************)
\* C33: a binary message that arrives when a function was given to
\* RegisterBinaryCallback is handed to that function, a close notification
\* that arrives when a function was given to RegisterCloseCallback is handed
\* to that function, and no ping, pong, binary or close notification changes
\* storedData or onText.
C33_NotificationsForwarded ==
    /\ [][(BinaryDelegate /\ binaryGiven # NullCallback) =>
             forwarded' = Append(forwarded, [handler |-> binaryGiven, kind |-> "binary"])]_vars
    /\ [][(CloseDelegate /\ closeGiven # NullCallback) =>
             forwarded' = Append(forwarded, [handler |-> closeGiven, kind |-> "close"])]_vars
    /\ [][(PingDelegate \/ PongDelegate \/ BinaryDelegate \/ CloseDelegate) =>
             UNCHANGED <<storedData, onText>>]_vars

\* C34: once a close notification has arrived, a call of Text, Binary or
\* Close changes neither storedData, nor onText, nor what was handed to a
\* handler, nor what was handed to the wrapped connection.
C34_SendsAfterCloseAreNoOps ==
    [][(/\ closeReceived
        /\ \/ \E message \in 1..MaxMessages : Text(message)
           \/ \E message \in 1..MaxMessages : Binary(message)
           \/ Close) =>
          UNCHANGED <<storedData, onText, delivered, forwarded, sent, wsMutex>>]_vars

\* Text was called after a close notification, with a payload stored and a
\* handler registered.
C34_Witness ==
    /\ closeReceived
    /\ lastSend = [kind |-> "Text", afterClose |-> TRUE]
    /\ storedData # <<>>
    /\ onText # NullCallback

====
